---- MODULE Spec2Model ----
(***************************************************************************)
(* Model of app/services/smart_scheduler.py (class SmartScheduler).        *)
(*                                                                         *)
(* Time is an integer number of minutes since Monday 00:00 of week 0, so   *)
(* date(), weekday() and hour are computed from it as datetime does.       *)
(* Scores are exact multiples of 1/Scale (floating-point rounding is not   *)
(* modelled); productivity weights and workload scores are tenths.         *)
(* User ids are small integers ordered as the id strings are ordered.      *)
(* The database is the set of Event rows (user_id, start_time, duration in *)
(* minutes) and Task rows (assigned_to, due_date) the queries select from; *)
(* any query may raise, which the fault argument of a call decides.        *)
(***************************************************************************)
EXTENDS Integers, Sequences, FiniteSets, TLC

VARIABLES
    events,         \* rows of the Event table
    tasks,          \* rows of the Task table
    redis_client,   \* TRUE when SmartScheduler.__init__ got a Redis client
    patterns,       \* Redis: productivity_patterns:<user> -> profile
    resultCache,    \* Redis: scheduling_result:<key> -> cached record
    now,            \* datetime.now()
    pc,             \* position of the find_optimal_meeting_time call
    call,           \* arguments of the call in progress
    scored_slots,   \* candidate list of the call in progress: potential_slots,
                    \* scored and sorted once _score_time_slots has returned
    result,         \* OptimizationResult built by the call in progress
    queries,        \* statements the call in progress sent to the database
    cacheWrites,    \* setex commands the call in progress sent to Redis
    pinned,         \* first completed call of a repeated request (SpecRepeat)
    redis_down,     \* TRUE when every command sent to Redis raises
    requests,       \* calls of find_optimal_meeting_time running concurrently
                    \* on the event loop (SpecConcurrent): id -> position, arguments, result
    lastWriter,     \* id of the concurrent call whose setex Redis applied last, 0 if none
    workload,       \* report returned by analyze_team_workload (SpecWorkload)
    slot_check,     \* a call of _check_slot_availability and the list it
                    \* returned (SpecAvailability)
    active_connections, \* WebSocketManager: user_id -> connection ids
    user_rooms,     \* WebSocketManager: user_id -> room ids
    room_members,   \* WebSocketManager: room_id -> user ids
    user_status,    \* WebSocketManager: user_id -> "online" or "offline"
    broken,         \* <<user_id, connection_id>> of the websockets whose
                    \* send_text raises
    handled         \* the last call of the manager: what it delivered, to
                    \* whom it was due, whether it raised

vars == <<events, tasks, redis_client, patterns, resultCache, now, pc, call,
          scored_slots, result, queries, cacheWrites, pinned, redis_down,
          requests, lastWriter, workload, slot_check, active_connections,
          user_rooms, room_members, user_status, broken, handled>>

\* the state of the WebSocket manager
wsVars == <<active_connections, user_rooms, room_members, user_status, broken, handled>>

\* state outside the scheduler's request path
sideVars == <<slot_check, wsVars>>

\* the state of the scheduler
schedulerVars ==
    <<events, tasks, redis_client, patterns, resultCache, now, pc, call, scored_slots,
      result, queries, cacheWrites, pinned, redis_down, requests, lastWriter, workload,
      slot_check>>

\* what the steps of find_optimal_meeting_time and of its data leave alone
restVars == <<redis_down, requests, lastWriter, workload, sideVars>>

-----------------------------------------------------------------------------
(* datetime arithmetic *)

MinutesPerDay == 24 * 60

At(day, hour, minute) == day * MinutesPerDay + hour * 60 + minute

DateOf(t) == t \div MinutesPerDay

\* date.weekday(): Monday = 0 ... Sunday = 6
WeekdayOf(d) == d % 7

HourOf(t) == (t % MinutesPerDay) \div 60

Min(a, b) == IF a <= b THEN a ELSE b

SetMax(S) == CHOOSE m \in S : \A x \in S : x <= m

-----------------------------------------------------------------------------
(* bounds and input sets *)

MaxEvents == 1
MaxTasks == 1

Users == {1, 2}

NoDate == 0 - 1

ParticipantChoices == { <<>>, <<1>>, <<1, 2>> }

DurationChoices == { 0 - 960, 30, 600 }

MeetingTypes == { "team_meeting", "brainstorming", "standup", "decision_making" }

PreferredChoices == { NoDate, At(3, 10, 15) }

NowChoices == { At(0, 8, 0), At(4, 16, 45) }

\* which of the call's database sessions raise
FaultChoices == { [analysis |-> FALSE, checks |-> FALSE],
                  [analysis |-> TRUE,  checks |-> FALSE],
                  [analysis |-> FALSE, checks |-> TRUE] }

\* the narrower argument sets of the repeated request
RepeatMeetingTypes == { "team_meeting", "standup" }

RepeatFaultChoices == { [analysis |-> FALSE, checks |-> FALSE],
                        [analysis |-> TRUE,  checks |-> FALSE] }

EventChoices ==
    { [user_id |-> 1, start_time |-> At(0, 9, 0),  duration |-> 60],
      [user_id |-> 2, start_time |-> At(0, 0, 0),  duration |-> 3 * MinutesPerDay],
      [user_id |-> 1, start_time |-> At(3, 11, 0), duration |-> 45] }

TaskChoices ==
    { [assigned_to |-> 1, due_date |-> At(0, 11, 0),
       created_at |-> At(0, 11, 0) - 3 * MinutesPerDay] }

PatternKeys == { "morning_early", "morning_late", "afternoon_early",
                 "afternoon_late", "evening", "late" }

\* profiles an earlier run may have stored (weights 0-1, in tenths; a key
\* may be missing)
CachedProfileChoices ==
    { [k \in {"morning_early", "morning_late", "evening"} |->
          IF k = "morning_early" THEN 10 ELSE 0] }

NoProfile == [k \in {} |-> 0]

\* users an earlier run stored a profile for
CachedUsers == {1}

\* the constraints argument: user id -> SchedulingConstraint (working_hours
\* as minutes of the day); None and {} are the empty mapping
NoConstraints == [u \in {} |-> 0]

ConstraintChoices ==
    { NoConstraints,
      [u \in {1} |-> [working_hours |-> <<13 * 60, 15 * 60>>]] }

\* a request of one duration, with every variation of constraints, database
\* faults and cached profiles
VariedParticipantChoices == { <<1>>, <<1, 2>> }

VariedDurationChoices == { 30 }

VariedMeetingTypes == { "team_meeting", "standup" }

VariedPreferredChoices == { NoDate, At(3, 10, 15), At(7, 10, 15) }

VariedFaultChoices == [analysis : BOOLEAN, checks : BOOLEAN]

MaxBlocks == 2

\* Event rows around the half hour from Monday 10:00: lengths 0, 15, 30 and
\* 60 minutes starting from 09:30 to 10:45 for user 1, two rows for user 2
BlockChoices ==
    { [user_id |-> 1, start_time |-> At(0, 9, 30) + 15 * k, duration |-> d] :
          k \in 0..5, d \in {0, 15, 30, 60} }
    \cup { [user_id |-> 2, start_time |-> At(0, 10, 0), duration |-> d] : d \in {0, 30} }

CheckedSlotChoices == { [start_time |-> At(0, 10, 0), end_time |-> At(0, 10, 30)] }

CheckedParticipantChoices == { <<1>>, <<1, 2>> }

\* the calls that run concurrently, and their arguments: the same team in
\* either order
Requests == {1, 2}

ConcurrentParticipantChoices == { <<1, 2>>, <<2, 1>> }

ConcurrentMeetingTypes == { "team_meeting", "standup" }

ConcurrentDurationChoices == { 30 }

\* a stored profile that favours the late afternoon
VariedProfileChoices ==
    CachedProfileChoices \cup
    { [k \in {"morning_early", "afternoon_late"} |->
          IF k = "afternoon_late" THEN 10 ELSE 0] }

\* cached profiles that favour the hours around noon: 13:00-14:59, and
\* 11:00-12:59
MiddayProfileChoices ==
    { [k \in {"morning_early", "morning_late", "afternoon_early"} |->
          IF k = "afternoon_early" THEN 10 ELSE 0],
      [k \in {"morning_early", "morning_late", "afternoon_early", "afternoon_late"} |->
          IF k = "morning_late" THEN 10 ELSE 0] }

MiddayParticipantChoices == { <<1>> }

MiddayMeetingTypes == { "team_meeting", "decision_making" }

MiddayFaultChoices == { [analysis |-> FALSE, checks |-> FALSE] }

-----------------------------------------------------------------------------
(* program constants *)

\* one score unit is 1/Scale; 0.1 * (a weight in tenths) and the workload
\* average of up to 6 participants are whole numbers of units
Scale == 30 * 100
SearchDays == 14
SlotStep == 30
DeadlineBlock == 120
MaxAlternatives == 5
WorkStartHour == 9
WorkEndHour == 17

-----------------------------------------------------------------------------
(* _calculate_productivity_patterns *)

DefaultPatterns ==
    [k \in PatternKeys |->
        CASE k = "morning_early"   -> 9
          [] k = "morning_late"    -> 8
          [] k = "afternoon_early" -> 6
          [] k = "afternoon_late"  -> 7
          [] k = "evening"         -> 5
          [] k = "late"            -> 3]

\* a lookup that trusts whatever the cache holds, failing or not
CalculateProductivityPatternsUnguarded(user_id) ==
    IF redis_client /\ patterns[user_id] # NoProfile
    THEN patterns[user_id]
    ELSE DefaultPatterns

\* `if cached: return json.loads(cached)`, else the default table, also when
\* the get raises (`except Exception: pass`)
CalculateProductivityPatterns(user_id) ==
    IF redis_client /\ ~redis_down /\ patterns[user_id] # NoProfile
    THEN patterns[user_id]
    ELSE DefaultPatterns

-----------------------------------------------------------------------------
(* _analyze_team_availability *)

UserEvents(user_id, start_date, end_date) ==
    { e \in events : /\ e.user_id = user_id
                     /\ e.start_time >= start_date
                     /\ e.start_time <= end_date }

UserTasks(user_id, start_date, end_date) ==
    { t \in tasks : /\ t.assigned_to = user_id
                    /\ t.due_date >= start_date
                    /\ t.due_date <= end_date }

BusySlots(user_id, start_date, end_date) ==
    { [start |-> e.start_time, end |-> e.start_time + e.duration, type |-> "meeting"] :
          e \in UserEvents(user_id, start_date, end_date) }
    \cup
    { [start |-> t.due_date - DeadlineBlock, end |-> t.due_date, type |-> "deadline"] :
          t \in UserTasks(user_id, start_date, end_date) }

SeqRange(s) == { s[i] : i \in DOMAIN s }

\* workload_score = min(len(user_events) / 10.0, 1.0), in tenths
AnalyzeTeamAvailability(participants, start_date, end_date, fails) ==
    IF fails /\ participants # <<>>
    THEN [u \in {} |-> 0]
    ELSE [u \in SeqRange(participants) |->
            [busy_slots            |-> BusySlots(u, start_date, end_date),
             productivity_patterns |-> CalculateProductivityPatterns(u),
             total_meetings        |-> Cardinality(UserEvents(u, start_date, end_date)),
             total_tasks           |-> Cardinality(UserTasks(u, start_date, end_date)),
             workload_score        |-> Min(Cardinality(UserEvents(u, start_date, end_date)), 10)]]

-----------------------------------------------------------------------------
(* _check_slot_availability *)

Conflicts(user_id, start_time, end_time) ==
    { e \in events :
        /\ e.user_id = user_id
        /\ \/ (e.start_time <= start_time /\ e.start_time + e.duration > start_time)
           \/ (e.start_time < end_time /\ e.start_time + e.duration >= end_time)
           \/ (e.start_time >= start_time /\ e.start_time + e.duration <= end_time) }

CheckSlotAvailability(start_time, end_time, participants, fails) ==
    IF fails /\ participants # <<>>
    THEN <<>>
    ELSE SelectSeq(participants, LAMBDA u : Conflicts(u, start_time, end_time) = {})

-----------------------------------------------------------------------------
(* _generate_time_slots *)

NewSlot(start_time, end_time, available_users) ==
    [start_time         |-> start_time,
     end_time           |-> end_time,
     available_users    |-> available_users,
     productivity_score |-> 0]

IsWeekend(current_date) == WeekdayOf(current_date) >= 5

\* a generator that keeps a step at which anybody is free
EmitSlotIfAnyFree(available_users, participants) ==
    Len(available_users) > 0 \/ Len(participants) = 0

\* `if len(available_users) == len(participants):`
EmitSlot(available_users, participants) == Len(available_users) = Len(participants)

\* iterations of the inner loop `while current_time + duration <= working_end`,
\* current_time advancing by SlotStep from working_start
DaySteps(working_start, working_end, duration_minutes) ==
    IF working_start + duration_minutes <= working_end
    THEN ((working_end - duration_minutes - working_start) \div SlotStep) + 1
    ELSE 0

\* the inner loop: the slot of every step, kept when all participants are free
DaySlots(working_start, working_end, duration_minutes, participants, fails) ==
    LET checked ==
            [k \in 1..DaySteps(working_start, working_end, duration_minutes) |->
                LET current_time == working_start + (k - 1) * SlotStep
                    slot_end == current_time + duration_minutes
                IN  NewSlot(current_time, slot_end,
                            CheckSlotAvailability(current_time, slot_end,
                                                  participants, fails))]
    IN  SelectSeq(checked, LAMBDA s : EmitSlot(s.available_users, participants))

\* the outer loop: `while current_date <= end_search_date`
RECURSIVE DaysLoop(_, _, _, _, _)
DaysLoop(current_date, end_search_date, duration_minutes, participants, fails) ==
    IF current_date <= end_search_date
    THEN IF IsWeekend(current_date)
         THEN DaysLoop(current_date + 1, end_search_date,
                       duration_minutes, participants, fails)
         ELSE DaySlots(At(current_date, WorkStartHour, 0),
                       At(current_date, WorkEndHour, 0),
                       duration_minutes, participants, fails)
              \o DaysLoop(current_date + 1, end_search_date,
                          duration_minutes, participants, fails)
    ELSE <<>>

\* the constraints argument is accepted and never read
GenerateTimeSlots(participants, duration_minutes, start_date, end_date, constraints, fails) ==
    DaysLoop(DateOf(start_date), DateOf(end_date),
             duration_minutes, participants, fails)

\* slot checks the generator runs over the days of the window
RECURSIVE StepsOfDays(_, _, _)
StepsOfDays(current_date, end_search_date, duration_minutes) ==
    IF current_date <= end_search_date
    THEN (IF IsWeekend(current_date)
          THEN 0
          ELSE DaySteps(At(current_date, WorkStartHour, 0),
                        At(current_date, WorkEndHour, 0), duration_minutes))
         + StepsOfDays(current_date + 1, end_search_date, duration_minutes)
    ELSE 0

-----------------------------------------------------------------------------
(* _score_time_slots *)

TypeBonus(meeting_type, hour) ==
    IF meeting_type = "brainstorming"
    THEN (IF 9 <= hour /\ hour <= 11 THEN (4 * Scale) \div 10
          ELSE IF 14 <= hour /\ hour <= 16 THEN (2 * Scale) \div 10
          ELSE 0)
    ELSE IF meeting_type = "standup"
    THEN (IF 9 <= hour /\ hour <= 10 THEN (5 * Scale) \div 10
          ELSE IF 10 <= hour /\ hour <= 11 THEN (3 * Scale) \div 10
          ELSE 0)
    ELSE IF meeting_type = "decision_making"
    THEN (IF 10 <= hour /\ hour <= 14 THEN (4 * Scale) \div 10 ELSE 0)
    ELSE 0

\* patterns.get(key, 0.5)
PatternGet(pattern, key) == IF key \in DOMAIN pattern THEN pattern[key] ELSE 5

PatternBonus(pattern, hour) ==
    IF 8 <= hour /\ hour <= 10 THEN PatternGet(pattern, "morning_early") * (Scale \div 100)
    ELSE IF 10 <= hour /\ hour <= 12 THEN PatternGet(pattern, "morning_late") * (Scale \div 100)
    ELSE IF 12 <= hour /\ hour <= 14 THEN PatternGet(pattern, "afternoon_early") * (Scale \div 100)
    ELSE IF 14 <= hour /\ hour <= 16 THEN PatternGet(pattern, "afternoon_late") * (Scale \div 100)
    ELSE IF 16 <= hour /\ hour <= 18 THEN PatternGet(pattern, "evening") * (Scale \div 100)
    ELSE 0

RECURSIVE ProductivitySum(_, _, _, _)
ProductivitySum(participants, i, hour, availability_data) ==
    IF i > Len(participants) THEN 0
    ELSE (IF participants[i] \in DOMAIN availability_data
          THEN PatternBonus(availability_data[participants[i]].productivity_patterns, hour)
          ELSE 0)
         + ProductivitySum(participants, i + 1, hour, availability_data)

\* sum of availability_data.get(user_id, {}).get('workload_score', 0.5), in tenths
RECURSIVE TotalWorkload(_, _, _)
TotalWorkload(participants, i, availability_data) ==
    IF i > Len(participants) THEN 0
    ELSE (IF participants[i] \in DOMAIN availability_data
          THEN availability_data[participants[i]].workload_score
          ELSE 5)
         + TotalWorkload(participants, i + 1, availability_data)

\* (1.0 - total_workload / len(participants)) * 0.2
WorkloadBonus(participants, availability_data) ==
    ((Scale \div 50) * (10 * Len(participants) - TotalWorkload(participants, 1, availability_data)))
        \div Len(participants)

WeekdayBonus(weekday) ==
    IF weekday < 4 THEN Scale \div 10
    ELSE IF weekday = 4 THEN Scale \div 20
    ELSE 0

\* a scoring that forgets the cap
ClampScoreMissing(score) == score

\* slot.productivity_score = min(score, 1.0)
ClampScore(score) == Min(score, Scale)

SlotScore(slot, participants, meeting_type, availability_data) ==
    ClampScore((3 * Scale) \div 10
               + TypeBonus(meeting_type, HourOf(slot.start_time))
               + ProductivitySum(participants, 1, HourOf(slot.start_time), availability_data)
               + WorkloadBonus(participants, availability_data)
               + WeekdayBonus(WeekdayOf(DateOf(slot.start_time))))

\* sorted(time_slots, key=productivity_score, reverse=True): stable
RECURSIVE SortDescending(_, _)
SortDescending(slots, scores) ==
    IF scores = {} THEN <<>>
    ELSE LET m == SetMax(scores)
         IN  SelectSeq(slots, LAMBDA s : s.productivity_score = m)
             \o SortDescending(slots, scores \ {m})

SortedByScore(slots) ==
    SortDescending(slots, { slots[i].productivity_score : i \in DOMAIN slots })

\* the division by len(participants) raises ZeroDivisionError on the first slot
ScoringRaises(time_slots, participants) ==
    time_slots # <<>> /\ Len(participants) = 0

\* the loop of _score_time_slots: every slot gets its productivity_score
ScoreEach(time_slots, participants, meeting_type, availability_data) ==
    [i \in DOMAIN time_slots |->
        [time_slots[i] EXCEPT !.productivity_score =
            SlotScore(time_slots[i], participants, meeting_type, availability_data)]]

-----------------------------------------------------------------------------
(* _analyze_productivity_impact, _check_scheduling_conflicts *)

AnalyzeProductivityImpact(slot) ==
    IF slot.productivity_score * 10 > 8 * Scale THEN "high_positive"
    ELSE IF slot.productivity_score * 10 > 6 * Scale THEN "moderate_positive"
    ELSE IF slot.productivity_score * 10 > 4 * Scale THEN "neutral"
    ELSE "possible_negative"

CheckSchedulingConflicts(slot) ==
    (IF 12 <= HourOf(slot.start_time) /\ HourOf(slot.start_time) <= 13
     THEN <<"lunch">> ELSE <<>>)
    \o (IF HourOf(slot.start_time) >= 16 THEN <<"late_day">> ELSE <<>>)
    \o (IF WeekdayOf(DateOf(slot.start_time)) = 4 /\ HourOf(slot.start_time) >= 15
        THEN <<"friday_afternoon">> ELSE <<>>)

-----------------------------------------------------------------------------
(* find_optimal_meeting_time *)

NoResult ==
    [recommended_time    |-> NoDate,
     confidence_score    |-> 0,
     alternative_times   |-> <<>>,
     reasoning           |-> "none",
     productivity_impact |-> "none",
     conflict_warnings   |-> <<>>]

\* a no-slot result that recommends the window start itself
NoSlotResultAtStart(search_start) ==
    [recommended_time    |-> search_start,
     confidence_score    |-> 0,
     alternative_times   |-> <<>>,
     reasoning           |-> "no_slot_found",
     productivity_impact |-> "unknown",
     conflict_warnings   |-> <<"no_free_slots">>]

\* `if not scored_slots:` the no-slot result
NoSlotResult(search_start) ==
    [recommended_time    |-> search_start + MinutesPerDay,
     confidence_score    |-> 0,
     alternative_times   |-> <<>>,
     reasoning           |-> "no_slot_found",
     productivity_impact |-> "unknown",
     conflict_warnings   |-> <<"no_free_slots">>]

\* `except Exception as e:` the error result
ErrorResult(clock) ==
    [recommended_time    |-> clock + 60,
     confidence_score    |-> 0,
     alternative_times   |-> <<>>,
     reasoning           |-> "error",
     productivity_impact |-> "unknown",
     conflict_warnings   |-> <<>>]

\* a selection that takes the last slot of the ranking
BestSlotLast(scored) == scored[Len(scored)]

BestSlot(scored) == scored[1]

\* [slot.start_time for slot in scored_slots[1:6]]
Alternatives(scored) ==
    [i \in 1..Min(Len(scored) - 1, MaxAlternatives) |-> scored[i + 1].start_time]

SlotResult(scored) ==
    [recommended_time    |-> BestSlot(scored).start_time,
     confidence_score    |-> BestSlot(scored).productivity_score,
     alternative_times   |-> Alternatives(scored),
     reasoning           |-> "recommended",
     productivity_impact |-> AnalyzeProductivityImpact(BestSlot(scored)),
     conflict_warnings   |-> CheckSchedulingConflicts(BestSlot(scored))]

\* a search that always starts at the current time
SearchStartNow(preferred_date) == now

\* search_start = preferred_date or datetime.now()
SearchStart(preferred_date) == IF preferred_date = NoDate THEN now ELSE preferred_date

SearchEnd(preferred_date) == SearchStart(preferred_date) + SearchDays * MinutesPerDay

\* statements sent to the database: two per participant by the analysis
\* (one, the failing one, when it raises), one per participant per slot
\* check (one per check when it raises)
QueriesIssued(participants, duration_minutes, preferred_date, fault) ==
    (IF participants = <<>> THEN 0
     ELSE IF fault.analysis THEN 1
     ELSE 2 * Len(participants))
    + StepsOfDays(DateOf(SearchStart(preferred_date)), DateOf(SearchEnd(preferred_date)),
                  duration_minutes)
      * (IF participants = <<>> THEN 0
         ELSE IF fault.checks THEN 1
         ELSE Len(participants))

NoCall ==
    [participants     |-> <<>>,
     duration_minutes |-> 0,
     meeting_type     |-> "none",
     preferred_date   |-> NoDate,
     constraints      |-> NoConstraints,
     fault            |-> [analysis |-> FALSE, checks |-> FALSE],
     clock            |-> NoDate]

NoPin == [call |-> NoCall, result |-> NoResult]

NoRequest ==
    [pc |-> "idle", participants |-> <<>>, result |-> NoResult, written |-> NoResult]

\* the result find_optimal_meeting_time builds from its scored slots
\* (the whole list when the scoring raised)
BuildResult(potential_slots, scored, participants, search_start) ==
    IF ScoringRaises(potential_slots, participants) THEN ErrorResult(now)
    ELSE IF scored = <<>> THEN NoSlotResult(search_start)
    ELSE SlotResult(scored)

-----------------------------------------------------------------------------
(* _cache_scheduling_result *)

\* redis setex: the value under the key is replaced whole
SetEx(cache, key, value) ==
    [k \in DOMAIN cache \cup {key} |-> IF k = key THEN value ELSE cache[k]]

\* a key built from the list as passed
CacheKeyUnsorted(participants) == participants

\* ':'.join(sorted(participants))
CacheKey(participants) == SortSeq(participants, LAMBDA a, b : a < b)

CacheData(res, clock) ==
    [recommended_time |-> res.recommended_time,
     confidence_score |-> res.confidence_score,
     reasoning        |-> res.reasoning,
     timestamp        |-> clock]

-----------------------------------------------------------------------------
(* analyze_team_workload *)

\* the clock of a workload analysis: Monday 08:00, fourteen weeks on
WorkloadNow == At(98, 8, 0)

Meetings(user_id, days, duration) ==
    { [user_id |-> user_id, start_time |-> At(d, 10, 0), duration |-> duration] :
          d \in days }

\* n quarter-hour meetings, one every half hour up to now
ManyMeetings(user_id, n) ==
    { [user_id |-> user_id, start_time |-> WorkloadNow - 30 * k, duration |-> 15] :
          k \in 1..n }

\* calendars of user 1: none, two and five one-hour meetings in the last
\* week, a 1600-minute event, a meeting eighteen days back, four meetings of
\* 288 minutes, and 28, 29 and 121 short meetings in the last three days
CalendarChoices1 ==
    { {},
      Meetings(1, 96..97, 60),
      Meetings(1, 93..97, 60),
      Meetings(1, {92}, 1600),
      Meetings(1, 93..97, 60) \cup Meetings(1, {92}, 1600),
      Meetings(1, 93..97, 60) \cup Meetings(1, {80}, 60),
      Meetings(1, 94..97, 288),
      ManyMeetings(1, 28),
      ManyMeetings(1, 29),
      ManyMeetings(1, 121) }

\* calendars of user 2: the same totals in fewer or more meetings
CalendarChoices2 ==
    { {},
      Meetings(2, 96..97, 150),
      Meetings(2, {95}, 300),
      Meetings(2, 96..97, 800),
      Meetings(2, {95}, 300) \cup Meetings(2, 96..97, 800),
      Meetings(2, {97}, 1600) }

TeamChoices == { <<>>, <<1>>, <<1, 2>> }

PeriodChoices == { "week", "month", "quarter", "year" }

\* a month of 31 days
DaysInPeriodThirtyOne(time_period) ==
    IF time_period = "week" THEN 7
    ELSE IF time_period = "month" THEN 31
    ELSE 90

\* (now - start_date).days; any period but week and month is the quarter
DaysInPeriod(time_period) ==
    IF time_period = "week" THEN 7
    ELSE IF time_period = "month" THEN 30
    ELSE 90

\* Event rows with start_date <= start_time <= now
PeriodEvents(user_id, start_date) ==
    { e \in events : /\ e.user_id = user_id
                     /\ e.start_time >= start_date
                     /\ e.start_time <= now }

\* Task rows with created_at >= start_date
PeriodTasks(user_id, start_date) ==
    { t \in tasks : t.assigned_to = user_id /\ t.created_at >= start_date }

\* the sum taken one distinct duration at a time
RECURSIVE SumByDuration(_, _)
SumByDuration(durations, user_events) ==
    IF durations = {} THEN 0
    ELSE LET d == CHOOSE x \in durations : TRUE
         IN  d * Cardinality({ e \in user_events : e.duration = d })
                 + SumByDuration(durations \ {d}, user_events)

\* sum(event.duration for event in user_events)
TotalMeetingTime(user_events) ==
    SumByDuration({ e.duration : e \in user_events }, user_events)

\* one workload unit is 1/WorkloadScale: with days 7, 30 or 90,
\* (count / days) / 5 + ((minutes / 60) / days) / 4
\*     = (48 * count + minutes) * (630 / days) / (240 * 630)
WorkloadScale == 240 * 630

\* a score in which meetings discount the hours
WorkloadScoreDiscounted(meeting_count, total_meeting_time, days_in_period) ==
    Min((total_meeting_time + 48 * (10 - meeting_count)) * (630 \div days_in_period),
        WorkloadScale)

\* min((avg_meetings_per_day / 5) + (avg_meeting_hours_per_day / 4), 1.0)
WorkloadScore(meeting_count, total_meeting_time, days_in_period) ==
    Min((48 * meeting_count + total_meeting_time) * (630 \div days_in_period),
        WorkloadScale)

\* _get_workload_status
GetWorkloadStatus(score) ==
    IF 10 * score < 3 * WorkloadScale THEN "low"
    ELSE IF 10 * score < 6 * WorkloadScale THEN "optimal"
    ELSE IF 10 * score < 8 * WorkloadScale THEN "high"
    ELSE "overloaded"

\* workload_data[user_id]; avg_meetings_per_day is round(count / days, 1) in
\* tenths (20 * count is even and an odd multiple of 7 is odd, 2 * count is
\* even and an odd multiple of 3 or 9 is odd: no count is a tie for 7, 30, 90)
UserWorkload(user_id, time_period) ==
    LET start_date == now - DaysInPeriod(time_period) * MinutesPerDay
        user_events == PeriodEvents(user_id, start_date)
        meeting_count == Cardinality(user_events)
        total_meeting_time == TotalMeetingTime(user_events)
        workload_score == WorkloadScore(meeting_count, total_meeting_time,
                                        DaysInPeriod(time_period))
    IN  [meeting_count        |-> meeting_count,
         total_meeting_time   |-> total_meeting_time,
         task_count           |-> Cardinality(PeriodTasks(user_id, start_date)),
         workload_score       |-> workload_score,
         avg_meetings_per_day |-> (20 * meeting_count + DaysInPeriod(time_period))
                                      \div (2 * DaysInPeriod(time_period)),
         status               |-> GetWorkloadStatus(workload_score)]

\* _generate_workload_recommendations
GenerateWorkloadRecommendations(workload_data) ==
    LET overloaded == { u \in DOMAIN workload_data :
                           10 * workload_data[u].workload_score > 8 * WorkloadScale }
        underloaded == { u \in DOMAIN workload_data :
                            10 * workload_data[u].workload_score < 3 * WorkloadScale }
        high_meeting_users == { u \in DOMAIN workload_data :
                                   workload_data[u].avg_meetings_per_day > 40 }
    IN  (IF overloaded # {}
         THEN << [kind |-> "overloaded", members |-> Cardinality(overloaded)] >>
         ELSE <<>>)
        \o (IF underloaded # {}
            THEN << [kind |-> "underloaded", members |-> Cardinality(underloaded)] >>
            ELSE <<>>)
        \o (IF high_meeting_users # {}
            THEN << [kind |-> "too_many_meetings", members |-> 0] >>
            ELSE <<>>)
        \o << [kind |-> "focus_time", members |-> 0] >>

RECURSIVE SumOfScores(_, _)
SumOfScores(workload_data, users) ==
    IF users = {} THEN 0
    ELSE LET u == CHOOSE x \in users : TRUE
         IN  workload_data[u].workload_score + SumOfScores(workload_data, users \ {u})

\* _generate_workload_summary: the tier of the team average
GenerateWorkloadSummary(workload_data) ==
    LET total_members == Cardinality(DOMAIN workload_data)
        total == SumOfScores(workload_data, DOMAIN workload_data)
    IN  IF 10 * total < 4 * total_members * WorkloadScale THEN "low"
        ELSE IF 10 * total < 7 * total_members * WorkloadScale THEN "optimal"
        ELSE "overloaded"

NoReport ==
    [error |-> FALSE, message |-> "none", period |-> "none",
     team_workload |-> [u \in {} |-> 0],
     score_total |-> 0, recommendations |-> <<>>, summary |-> "none"]

\* `except Exception as e:` the error report, which carries str(e) and has
\* no period, average or summary
ErrorReport(message) ==
    [error |-> TRUE, message |-> message, period |-> "none",
     team_workload |-> [u \in {} |-> 0],
     score_total |-> 0, recommendations |-> <<>>, summary |-> "none"]

\* the report of analyze_team_workload; team_average_score is score_total
\* over the number of members, and an empty team divides by zero
TeamWorkloadReport(team_members, time_period, fails) ==
    IF fails /\ team_members # <<>>
    THEN ErrorReport("database")
    ELSE IF team_members = <<>>
    THEN ErrorReport("division by zero")
    ELSE LET workload_data ==
                 [u \in SeqRange(team_members) |-> UserWorkload(u, time_period)]
         IN  [error           |-> FALSE,
              message         |-> "none",
              period          |-> time_period,
              team_workload   |-> workload_data,
              score_total     |-> SumOfScores(workload_data, DOMAIN workload_data),
              recommendations |-> GenerateWorkloadRecommendations(workload_data),
              summary         |-> GenerateWorkloadSummary(workload_data)]

NoCheck ==
    [start_time |-> NoDate, end_time |-> NoDate, participants |-> <<>>,
     fails |-> FALSE, available_users |-> <<>>]

-----------------------------------------------------------------------------
(* WebSocketManager *)

WsUsers == {1, 2}

ConnectionIds == {1, 2}

\* f"user_{user_id}", the default room of a user
UserRoom(user_id) == <<"user", user_id>>

\* the rooms named in calls: the default rooms and a team room
RoomChoices == { UserRoom(u) : u \in WsUsers } \cup { <<"team", 0>> }

\* dict[key] = value and del dict[key]
Put(dict, key, value) ==
    [k \in DOMAIN dict \cup {key} |-> IF k = key THEN value ELSE dict[k]]

Del(dict, key) == [k \in DOMAIN dict \ {key} |-> dict[k]]

\* the manager's dictionaries, the connections whose send_text raises, and
\* what the handler in progress has delivered and whether it has raised
Manager ==
    [active_connections |-> active_connections,
     user_rooms         |-> user_rooms,
     room_members       |-> room_members,
     user_status        |-> user_status,
     broken             |-> broken,
     delivered          |-> {},
     raised             |-> FALSE]

\* join_room(user_id, room_id)
JoinRoom(m, user_id, room_id) ==
    [m EXCEPT
       !.room_members =
           Put(m.room_members, room_id,
               (IF room_id \in DOMAIN m.room_members
                THEN m.room_members[room_id] ELSE {}) \cup {user_id}),
       !.user_rooms =
           Put(m.user_rooms, user_id,
               (IF user_id \in DOMAIN m.user_rooms
                THEN m.user_rooms[user_id] ELSE {}) \cup {room_id})]

\* a leave_room that keeps the emptied room
LeaveRoomKeepingEmptyRoom(m, user_id, room_id) ==
    [m EXCEPT
       !.room_members =
           IF room_id \in DOMAIN m.room_members
           THEN Put(m.room_members, room_id, m.room_members[room_id] \ {user_id})
           ELSE m.room_members,
       !.user_rooms =
           IF user_id \in DOMAIN m.user_rooms
           THEN Put(m.user_rooms, user_id, m.user_rooms[user_id] \ {room_id})
           ELSE m.user_rooms]

\* leave_room(user_id, room_id)
LeaveRoom(m, user_id, room_id) ==
    [m EXCEPT
       !.room_members =
           IF room_id \in DOMAIN m.room_members
           THEN IF m.room_members[room_id] \ {user_id} = {}
                THEN Del(m.room_members, room_id)
                ELSE Put(m.room_members, room_id, m.room_members[room_id] \ {user_id})
           ELSE m.room_members,
       !.user_rooms =
           IF user_id \in DOMAIN m.user_rooms
           THEN Put(m.user_rooms, user_id, m.user_rooms[user_id] \ {room_id})
           ELSE m.user_rooms]

\* `for room_id in list(self.user_rooms[user_id]): await self.leave_room(...)`
RECURSIVE LeaveRooms(_, _, _)
LeaveRooms(m, user_id, rooms) ==
    IF rooms = {} THEN m
    ELSE LET room_id == CHOOSE r \in rooms : TRUE
         IN  LeaveRooms(LeaveRoom(m, user_id, room_id), user_id, rooms \ {room_id})

\* the user_status message of broadcast_user_status
StatusMessage(user_id, status) ==
    [type |-> "user_status", user_id |-> user_id, status |-> status]

\* the welcome message of connect
WelcomeMessage == [type |-> "system_message", user_id |-> 0, status |-> "none"]

\* a message as one connection of a user received it
Received(message, to, connection_id) ==
    [to |-> to, connection_id |-> connection_id, type |-> message.type,
     user_id |-> message.user_id, status |-> message.status]

\* connections of a user whose send_text raises, and those that deliver
BrokenOf(m, user_id) ==
    IF user_id \in DOMAIN m.active_connections
    THEN { c \in m.active_connections[user_id] : <<user_id, c>> \in m.broken }
    ELSE {}

HealthyOf(m, user_id) ==
    IF user_id \in DOMAIN m.active_connections
    THEN m.active_connections[user_id] \ BrokenOf(m, user_id)
    ELSE {}

\* a connected user all of whose connections raise on send
Dying(m, user_id) ==
    user_id \in DOMAIN m.active_connections /\ HealthyOf(m, user_id) = {}

\* disconnect(user_id, connection_id) up to the offline broadcast: the
\* connection is removed, and with the last one the user is marked offline
\* and leaves every room
DisconnectAndLeave(m, user_id, connection_id) ==
    IF user_id \notin DOMAIN m.active_connections THEN m
    ELSE LET rest == m.active_connections[user_id] \ {connection_id}
             gone == [m EXCEPT !.broken = m.broken \ {<<user_id, connection_id>>}]
         IN  IF rest # {}
             THEN [gone EXCEPT !.active_connections =
                                   Put(m.active_connections, user_id, rest)]
             ELSE LET offline ==
                          [gone EXCEPT
                             !.active_connections = Del(m.active_connections, user_id),
                             !.user_status = Put(m.user_status, user_id, "offline")]
                  IN  IF user_id \in DOMAIN offline.user_rooms
                      THEN LeaveRooms(offline, user_id, offline.user_rooms[user_id])
                      ELSE offline

\* the rooms broadcast_user_status walks: those of the user that exist
StatusRooms(m, user_id) ==
    IF user_id \in DOMAIN m.user_rooms
    THEN m.user_rooms[user_id] \cap DOMAIN m.room_members
    ELSE {}

\* the members broadcast_to_room sends to
Others(m, room_id, exclude_user) == m.room_members[room_id] \ {exclude_user}

\* `for connection_id in disconnected_connections: await self.disconnect(...)`
RECURSIVE DisconnectEach(_, _, _)
DisconnectEach(m, user_id, connections) ==
    IF connections = {} THEN m
    ELSE LET c == CHOOSE x \in connections : TRUE
         IN  DisconnectEach(DisconnectAndLeave(m, user_id, c), user_id,
                            connections \ {c})

\* send_personal_message(user_id, message): the message reaches every
\* connection that does not raise, then the connections that raised are
\* disconnected one by one; the last of them takes the user out of every
\* room, and the offline broadcast that follows finds no room left
SendPersonalMessage(m, user_id, message) ==
    IF user_id \notin DOMAIN m.active_connections THEN m
    ELSE DisconnectEach(
             [m EXCEPT !.delivered =
                  m.delivered \cup { Received(message, user_id, c) :
                                       c \in HealthyOf(m, user_id) }],
             user_id, BrokenOf(m, user_id))

\* the members served one after another
RECURSIVE SendToEach(_, _, _)
SendToEach(m, users, message) ==
    IF users = {} THEN m
    ELSE LET u == CHOOSE x \in users : TRUE
         IN  SendToEach(SendPersonalMessage(m, u, message), users \ {u}, message)

\* broadcast_user_status(user_id, status): the rooms of the user and the
\* members of each room are walked in the order of the sets. A member all of
\* whose connections raise is disconnected inside the walk and leaves the
\* room being walked, and the next step of `for user_id in
\* self.room_members[room_id]` raises RuntimeError (set changed size during
\* iteration). The outcomes are: every member of every room served, when no
\* such member is met; or the members of some rooms without such a member and
\* some of the other members of one more room served, one such member of that
\* room disconnected, and the error raised
BroadcastUserStatus(m, user_id, status) ==
    LET rooms == StatusRooms(m, user_id)
        message == StatusMessage(user_id, status)
        met == { v \in UNION { Others(m, r, user_id) : r \in rooms } : Dying(m, v) }
        clean == { r \in rooms : Others(m, r, user_id) \cap met = {} }
    IN  IF met = {}
        THEN { SendToEach(m, UNION { Others(m, r, user_id) : r \in rooms }, message) }
        ELSE { [SendPersonalMessage(
                    SendToEach(m, UNION { Others(m, r, user_id) : r \in x[3] }
                                      \cup x[4], message),
                    x[1], message) EXCEPT !.raised = TRUE] :
                 x \in { y \in met \X rooms \X (SUBSET clean) \X (SUBSET (WsUsers \ met)) :
                            /\ y[1] \in Others(m, y[2], user_id)
                            /\ y[4] \subseteq Others(m, y[2], user_id) } }

\* connect(websocket, user_id, connection_id): the connection is registered
\* (a new websocket under a known id replaces the old one), the user is
\* online and joins the default room, the status goes to the rooms, and
\* unless that raised the welcome message goes to the user
Connect(m, user_id, connection_id) ==
    LET registered ==
            [m EXCEPT
               !.active_connections =
                   Put(m.active_connections, user_id,
                       (IF user_id \in DOMAIN m.active_connections
                        THEN m.active_connections[user_id] ELSE {})
                           \cup {connection_id}),
               !.broken = m.broken \ {<<user_id, connection_id>>},
               !.user_status = Put(m.user_status, user_id, "online")]
        joined == JoinRoom(registered, user_id, UserRoom(user_id))
    IN  { IF b.raised THEN b ELSE SendPersonalMessage(b, user_id, WelcomeMessage) :
              b \in BroadcastUserStatus(joined, user_id, "online") }

\* disconnect(user_id, connection_id)
Disconnect(m, user_id, connection_id) ==
    IF /\ user_id \in DOMAIN m.active_connections
       /\ m.active_connections[user_id] \ {connection_id} = {}
    THEN BroadcastUserStatus(DisconnectAndLeave(m, user_id, connection_id),
                             user_id, "offline")
    ELSE { DisconnectAndLeave(m, user_id, connection_id) }

NoHandler ==
    [op |-> "none", user_id |-> 0, last_connection |-> FALSE, audience |-> {},
     delivered |-> {}, raised |-> FALSE]

-----------------------------------------------------------------------------
(* the state machine *)

SideInit ==
    /\ slot_check = NoCheck
    /\ active_connections = [u \in {} |-> {}]
    /\ user_rooms = [u \in {} |-> {}]
    /\ room_members = [r \in {} |-> {}]
    /\ user_status = [u \in {} |-> "offline"]
    /\ broken = {}
    /\ handled = NoHandler

Init ==
    /\ events = {}
    /\ tasks = {}
    /\ redis_client \in BOOLEAN
    /\ patterns = [u \in Users |-> NoProfile]
    /\ resultCache = [k \in {} |-> NoResult]
    /\ now = At(0, 8, 0)
    /\ pc = "idle"
    /\ call = NoCall
    /\ scored_slots = <<>>
    /\ result = NoResult
    /\ queries = 0
    /\ cacheWrites = 0
    /\ pinned = NoPin
    /\ redis_down = FALSE
    /\ requests = [r \in Requests |-> NoRequest]
    /\ lastWriter = 0
    /\ workload = NoReport
    /\ SideInit

callVars == <<pc, call, scored_slots, result, queries, cacheWrites>>

\* another writer inserts an Event row
AddEvent ==
    /\ pc = "idle"
    /\ pinned = NoPin
    /\ Cardinality(events) < MaxEvents
    /\ \E e \in EventChoices \ events : events' = events \cup {e}
    /\ UNCHANGED <<tasks, redis_client, patterns, resultCache, now, callVars, pinned>>
    /\ UNCHANGED restVars

\* another writer inserts a Task row
AddTask ==
    /\ pc = "idle"
    /\ pinned = NoPin
    /\ Cardinality(tasks) < MaxTasks
    /\ \E t \in TaskChoices \ tasks : tasks' = tasks \cup {t}
    /\ UNCHANGED <<events, redis_client, patterns, resultCache, now, callVars, pinned>>
    /\ UNCHANGED restVars

\* a learned profile appears under productivity_patterns:<user>
StorePatternsFrom(profiles) ==
    /\ pc = "idle"
    /\ pinned = NoPin
    /\ redis_client
    /\ patterns = [u \in Users |-> NoProfile]
    /\ \E u \in CachedUsers, p \in profiles :
          patterns' = [patterns EXCEPT ![u] = p]
    /\ UNCHANGED <<events, tasks, redis_client, resultCache, now, callVars, pinned>>
    /\ UNCHANGED restVars

StorePatterns == StorePatternsFrom(CachedProfileChoices)

StoreVariedPatterns == StorePatternsFrom(VariedProfileChoices)

StoreMiddayPatterns == StorePatternsFrom(MiddayProfileChoices)

\* the clock advances between calls
Tick ==
    /\ pc = "idle"
    /\ \E t \in NowChoices : t > now /\ now' = t
    /\ UNCHANGED <<events, tasks, redis_client, patterns, resultCache, callVars, pinned>>
    /\ UNCHANGED restVars

\* find_optimal_meeting_time up to the result it builds: analysis, slot
\* generation, scoring and ranking, selection; the except clause turns the
\* ZeroDivisionError of the scoring into the error result
Compute(participants, duration_minutes, meeting_type, preferred_date, constraints, fault) ==
    /\ \E availability_data \in
            { AnalyzeTeamAvailability(participants, SearchStart(preferred_date),
                                      SearchEnd(preferred_date), fault.analysis) } :
       \E potential_slots \in
            { GenerateTimeSlots(participants, duration_minutes, SearchStart(preferred_date),
                                SearchEnd(preferred_date), constraints, fault.checks) } :
       \E scored_each \in
            { IF ScoringRaises(potential_slots, participants)
              THEN potential_slots
              ELSE ScoreEach(potential_slots, participants, meeting_type,
                             availability_data) } :
       \E scored \in
            { IF ScoringRaises(potential_slots, participants)
              THEN potential_slots
              ELSE SortedByScore(scored_each) } :
       \E res \in
            { BuildResult(potential_slots, scored, participants,
                          SearchStart(preferred_date)) } :
          /\ scored_slots' = scored
          /\ result' = res
          /\ pc' = IF res.reasoning = "recommended" THEN "caching" ELSE "returning"
    /\ call' = [participants     |-> participants,
                duration_minutes |-> duration_minutes,
                meeting_type     |-> meeting_type,
                preferred_date   |-> preferred_date,
                constraints      |-> constraints,
                fault            |-> fault,
                clock            |-> now]
    /\ queries' = QueriesIssued(participants, duration_minutes, preferred_date, fault)
    /\ cacheWrites' = 0
    /\ UNCHANGED <<events, tasks, redis_client, patterns, resultCache, now>>
    /\ UNCHANGED restVars

\* a call whose queries the database answers at once
Invoke(participants, duration_minutes, meeting_type, preferred_date, constraints, fault) ==
    /\ pc = "idle"
    /\ Compute(participants, duration_minutes, meeting_type, preferred_date,
               constraints, fault)

\* find_optimal_meeting_time called with arguments from the given sets; a
\* repeated request (SpecRepeat) passes the arguments of the first call
CallWith(P, D, M, PD, C, F) ==
    /\ \E p \in P, d \in D, m \in M, pd \in PD, c \in C, f \in F :
          /\ \/ pinned = NoPin
             \/ /\ p = pinned.call.participants
                /\ d = pinned.call.duration_minutes
                /\ m = pinned.call.meeting_type
                /\ pd = pinned.call.preferred_date
                /\ c = pinned.call.constraints
                /\ f = pinned.call.fault
          /\ Invoke(p, d, m, pd, c, f)
    /\ UNCHANGED pinned

Call ==
    CallWith(ParticipantChoices, DurationChoices, MeetingTypes, PreferredChoices,
             {NoConstraints}, FaultChoices)

CallRepeatable ==
    CallWith(ParticipantChoices, DurationChoices, RepeatMeetingTypes, PreferredChoices,
             {NoConstraints}, RepeatFaultChoices)

\* a request that may pass per-user constraints and meet any database fault
CallVaried ==
    CallWith(VariedParticipantChoices, VariedDurationChoices, VariedMeetingTypes,
             VariedPreferredChoices, ConstraintChoices, VariedFaultChoices)

\* a request of one user whose cached profile favours the middle of the day
CallMidday ==
    CallWith(MiddayParticipantChoices, VariedDurationChoices, MiddayMeetingTypes,
             PreferredChoices, {NoConstraints}, MiddayFaultChoices)

\* the narrower argument sets of a call that waits for the database
AwaitedParticipantChoices == { <<1>>, <<1, 2>> }

AwaitedDurationChoices == { 30, 600 }

\* the call reaches its first `await db.execute(...)` and waits for the
\* database to answer
Submit ==
    /\ pc = "idle"
    /\ \E p \in AwaitedParticipantChoices, d \in AwaitedDurationChoices,
          pd \in PreferredChoices, f \in FaultChoices :
          call' = [participants     |-> p,
                   duration_minutes |-> d,
                   meeting_type     |-> "team_meeting",
                   preferred_date   |-> pd,
                   constraints      |-> NoConstraints,
                   fault            |-> f,
                   clock            |-> now]
    /\ pc' = "awaiting"
    /\ UNCHANGED <<events, tasks, redis_client, patterns, resultCache, now,
                   scored_slots, result, queries, cacheWrites, pinned>>
    /\ UNCHANGED restVars

\* the database answers the queries of the waiting call, with rows or with an
\* error, and the call runs on to its result; nothing in the call bounds the
\* wait
Answer ==
    /\ pc = "awaiting"
    /\ Compute(call.participants, call.duration_minutes, call.meeting_type,
               call.preferred_date, call.constraints, call.fault)
    /\ UNCHANGED pinned

\* a call that sends its record to Redis twice
CacheSchedulingResultTwice ==
    /\ pc = "caching"
    /\ resultCache' = SetEx(resultCache, CacheKey(call.participants),
                            CacheData(result, now))
    /\ cacheWrites' = cacheWrites + 1
    /\ pc' = IF cacheWrites >= 1 THEN "returning" ELSE "caching"
    /\ UNCHANGED <<events, tasks, redis_client, patterns, now, call, scored_slots,
                   result, queries, pinned>>
    /\ UNCHANGED restVars

\* `await self._cache_scheduling_result(participants, result)`
\* (`if not self.redis_client: return`; a setex that raises is logged and
\* dropped)
CacheSchedulingResult ==
    /\ pc = "caching"
    /\ IF redis_client
       THEN /\ resultCache' =
                 IF redis_down THEN resultCache
                 ELSE SetEx(resultCache, CacheKey(call.participants),
                            CacheData(result, now))
            /\ cacheWrites' = cacheWrites + 1
       ELSE UNCHANGED <<resultCache, cacheWrites>>
    /\ pc' = "returning"
    /\ UNCHANGED <<events, tasks, redis_client, patterns, now, call, scored_slots,
                   result, queries, pinned>>
    /\ UNCHANGED restVars

\* the service starts over with a Redis URL configured while Redis, which
\* holds a learned profile, raises on every command; the calendar is the same
CacheOutage ==
    /\ pc = "idle"
    /\ pinned # NoPin
    /\ ~redis_client
    /\ redis_client' = TRUE
    /\ redis_down' = TRUE
    /\ \E u \in CachedUsers, p \in VariedProfileChoices :
          patterns' = [patterns EXCEPT ![u] = p]
    /\ UNCHANGED <<events, tasks, resultCache, now, callVars, pinned, requests,
                   lastWriter, workload, sideVars>>

\* the caller receives the result
Return ==
    /\ pc = "returning"
    /\ pc' = "done"
    /\ UNCHANGED <<events, tasks, redis_client, patterns, resultCache, now, call,
                   scored_slots, result, queries, cacheWrites, pinned>>
    /\ UNCHANGED restVars

\* the caller repeats the request: same arguments, same data, later clock
Again ==
    /\ pc = "done"
    /\ pinned' = IF pinned = NoPin THEN [call |-> call, result |-> result] ELSE pinned
    /\ pc' = "idle"
    /\ call' = NoCall
    /\ scored_slots' = <<>>
    /\ result' = NoResult
    /\ queries' = 0
    /\ cacheWrites' = 0
    /\ UNCHANGED <<events, tasks, redis_client, patterns, resultCache, now>>
    /\ UNCHANGED restVars

Next ==
    \/ AddEvent
    \/ AddTask
    \/ StorePatterns
    \/ Tick
    \/ Call
    \/ CacheSchedulingResult
    \/ Return

\* one request against any database and cache contents
Spec == Init /\ [][Next]_vars

NextRepeat ==
    \/ AddEvent
    \/ AddTask
    \/ StorePatterns
    \/ Tick
    \/ CallRepeatable
    \/ CacheSchedulingResult
    \/ Return
    \/ Again

\* the same request repeated against unchanged data
SpecRepeat == Init /\ [][NextRepeat]_vars

NextVaried ==
    \/ AddEvent
    \/ AddTask
    \/ StoreVariedPatterns
    \/ Tick
    \/ CallVaried
    \/ CacheSchedulingResult
    \/ Return

\* concurrent call r runs up to its result; the awaits before the cache write
\* touch nothing shared but the calendar they read
Begin(r) ==
    /\ requests[r].pc = "idle"
    /\ \E participants \in ConcurrentParticipantChoices,
          duration_minutes \in ConcurrentDurationChoices,
          meeting_type \in ConcurrentMeetingTypes :
       \E availability_data \in
            { AnalyzeTeamAvailability(participants, SearchStart(NoDate),
                                      SearchEnd(NoDate), FALSE) } :
       \E potential_slots \in
            { GenerateTimeSlots(participants, duration_minutes, SearchStart(NoDate),
                                SearchEnd(NoDate), NoConstraints, FALSE) } :
       \E scored \in
            { SortedByScore(ScoreEach(potential_slots, participants, meeting_type,
                                      availability_data)) } :
       \E res \in
            { BuildResult(potential_slots, scored, participants, SearchStart(NoDate)) } :
          requests' = [requests EXCEPT ![r] =
                          [pc           |-> IF res.reasoning = "recommended"
                                            THEN "caching" ELSE "done",
                           participants |-> participants,
                           result       |-> res,
                           written      |-> NoResult]]
    /\ UNCHANGED <<events, tasks, redis_client, patterns, resultCache, now, callVars,
                   pinned, redis_down, lastWriter, workload, sideVars>>

\* concurrent call r runs _cache_scheduling_result: one setex, no lock
Write(r) ==
    /\ requests[r].pc = "caching"
    /\ IF redis_client
       THEN /\ resultCache' = SetEx(resultCache, CacheKey(requests[r].participants),
                                    CacheData(requests[r].result, now))
            /\ lastWriter' = r
            /\ requests' = [requests EXCEPT ![r].pc = "done",
                                            ![r].written = CacheData(requests[r].result, now)]
       ELSE /\ requests' = [requests EXCEPT ![r].pc = "done"]
            /\ UNCHANGED <<resultCache, lastWriter>>
    /\ UNCHANGED <<events, tasks, redis_client, patterns, now, callVars, pinned,
                   redis_down, workload, sideVars>>

NextConcurrent ==
    \/ AddEvent
    \/ Tick
    \/ \E r \in Requests : Begin(r)
    \/ \E r \in Requests : Write(r)

\* two calls for the same team interleaved on the event loop
SpecConcurrent == Init /\ [][NextConcurrent]_vars

NextMidday ==
    \/ AddEvent
    \/ AddTask
    \/ StoreMiddayPatterns
    \/ CallMidday
    \/ CacheSchedulingResult
    \/ Return

\* requests whose best slot falls around noon
SpecMidday == Init /\ [][NextMidday]_vars

\* an Event row is stored while no slot is being checked
AddBlock ==
    /\ slot_check = NoCheck
    /\ Cardinality(events) < MaxBlocks
    /\ \E e \in BlockChoices \ events : events' = events \cup {e}
    /\ UNCHANGED <<tasks, redis_client, patterns, resultCache, now, callVars, pinned,
                   redis_down, requests, lastWriter, workload, slot_check>>
    /\ UNCHANGED wsVars

\* _check_slot_availability(start_time, end_time, participants)
CheckSlot ==
    /\ slot_check = NoCheck
    /\ \E slot \in CheckedSlotChoices, participants \in CheckedParticipantChoices,
          fails \in BOOLEAN :
          slot_check' = [start_time      |-> slot.start_time,
                         end_time        |-> slot.end_time,
                         participants    |-> participants,
                         fails           |-> fails,
                         available_users |-> CheckSlotAvailability(slot.start_time,
                                                 slot.end_time, participants, fails)]
    /\ UNCHANGED <<events, tasks, redis_client, patterns, resultCache, now, callVars,
                   pinned, redis_down, requests, lastWriter, workload>>
    /\ UNCHANGED wsVars

\* the caller is done with the list
DropCheck ==
    /\ slot_check # NoCheck
    /\ slot_check' = NoCheck
    /\ UNCHANGED <<events, tasks, redis_client, patterns, resultCache, now, callVars,
                   pinned, redis_down, requests, lastWriter, workload>>
    /\ UNCHANGED wsVars

NextAvailability ==
    \/ AddBlock
    \/ CheckSlot
    \/ DropCheck

\* slot checks over any two Event rows near the slot
SpecAvailability == Init /\ [][NextAvailability]_vars

\* the manager after a handler, and what the handler did
Handled(m, op, user_id, last_connection, audience) ==
    /\ active_connections' = m.active_connections
    /\ user_rooms' = m.user_rooms
    /\ room_members' = m.room_members
    /\ user_status' = m.user_status
    /\ broken' = m.broken
    /\ handled' = [op              |-> op,
                   user_id         |-> user_id,
                   last_connection |-> last_connection,
                   audience        |-> audience,
                   delivered       |-> m.delivered,
                   raised          |-> m.raised]
    /\ UNCHANGED schedulerVars

\* the other users who, when the call starts, share a room with the user and
\* have a connection that delivers
Audience(user_id) ==
    { v \in WsUsers \ {user_id} :
        /\ HealthyOf(Manager, v) # {}
        /\ \E r \in StatusRooms(Manager, user_id) : v \in room_members[r] }

\* a client connects
ConnectCall ==
    \E user_id \in WsUsers, connection_id \in ConnectionIds :
        \E m \in Connect(Manager, user_id, connection_id) :
            Handled(m, "connect", user_id, FALSE, Audience(user_id))

\* a client goes away, or the endpoint drops a connection
DisconnectCall ==
    \E user_id \in WsUsers, connection_id \in ConnectionIds :
        \E m \in Disconnect(Manager, user_id, connection_id) :
            Handled(m, "disconnect", user_id,
                    /\ user_id \in DOMAIN active_connections
                    /\ active_connections[user_id] = {connection_id},
                    Audience(user_id))

\* join_room called for any user and room
JoinRoomCall ==
    \E user_id \in WsUsers, room_id \in RoomChoices :
        \E m \in { JoinRoom(Manager, user_id, room_id) } :
            Handled(m, "join_room", user_id, FALSE, {})

\* leave_room called for any user and room
LeaveRoomCall ==
    \E user_id \in WsUsers, room_id \in RoomChoices :
        \E m \in { LeaveRoom(Manager, user_id, room_id) } :
            Handled(m, "leave_room", user_id, FALSE, {})

\* the peer of a connection goes away unnoticed: send_text raises from now on
BreakConnection ==
    /\ \E user_id \in DOMAIN active_connections :
          \E connection_id \in active_connections[user_id] :
              /\ <<user_id, connection_id>> \notin broken
              /\ broken' = broken \cup {<<user_id, connection_id>>}
    /\ UNCHANGED <<active_connections, user_rooms, room_members, user_status, handled>>
    /\ UNCHANGED schedulerVars

NextWebSocket ==
    \/ ConnectCall
    \/ DisconnectCall
    \/ JoinRoomCall
    \/ LeaveRoomCall
    \/ BreakConnection

\* the calls of the WebSocket manager in any order
SpecWebSocket == Init /\ [][NextWebSocket]_vars

\* any calendar of the two users, the scheduler not in use
InitWorkload ==
    /\ \E c1 \in CalendarChoices1, c2 \in CalendarChoices2 : events = c1 \cup c2
    /\ tasks \in { {}, { [assigned_to |-> 1, due_date |-> WorkloadNow + MinutesPerDay,
                          created_at |-> WorkloadNow - MinutesPerDay] } }
    /\ redis_client \in BOOLEAN
    /\ patterns = [u \in Users |-> NoProfile]
    /\ resultCache = [k \in {} |-> NoResult]
    /\ now = WorkloadNow
    /\ pc = "idle"
    /\ call = NoCall
    /\ scored_slots = <<>>
    /\ result = NoResult
    /\ queries = 0
    /\ cacheWrites = 0
    /\ pinned = NoPin
    /\ redis_down = FALSE
    /\ requests = [r \in Requests |-> NoRequest]
    /\ lastWriter = 0
    /\ workload = NoReport
    /\ SideInit

\* analyze_team_workload(team_members, time_period)
AnalyzeTeamWorkload ==
    /\ workload = NoReport
    /\ \E team_members \in TeamChoices, time_period \in PeriodChoices, fails \in BOOLEAN :
          workload' = TeamWorkloadReport(team_members, time_period, fails)
    /\ UNCHANGED <<events, tasks, redis_client, patterns, resultCache, now, callVars,
                   pinned, redis_down, requests, lastWriter, sideVars>>

\* the caller is done with the report
DropReport ==
    /\ workload # NoReport
    /\ workload' = NoReport
    /\ UNCHANGED <<events, tasks, redis_client, patterns, resultCache, now, callVars,
                   pinned, redis_down, requests, lastWriter, sideVars>>

NextWorkload ==
    \/ AnalyzeTeamWorkload
    \/ DropReport

\* workload analyses over any calendar of the two users
SpecWorkload == InitWorkload /\ [][NextWorkload]_vars

NextCacheOutage ==
    \/ AddEvent
    \/ AddTask
    \/ CallRepeatable
    \/ CacheSchedulingResult
    \/ Return
    \/ Again
    \/ CacheOutage

\* the same request at the same time against the same calendar, first with
\* no cache configured, then with a cache that raises
SpecCacheOutage == Init /\ [][NextCacheOutage]_vars

NextAwaited ==
    \/ AddEvent
    \/ AddTask
    \/ Tick
    \/ Submit
    \/ Answer
    \/ CacheSchedulingResult
    \/ Return

\* one request whose queries the database may answer late or never: the
\* event loop runs the call's own steps whenever they are ready, and no
\* fairness binds the database
SpecAwaited ==
    /\ Init
    /\ [][NextAwaited]_vars
    /\ WF_vars(CacheSchedulingResult)
    /\ WF_vars(Return)

\* one 30-minute request under every variation of constraints, faults and
\* cached profiles
SpecVaried == Init /\ [][NextVaried]_vars

-----------------------------------------------------------------------------
(* properties of one call *)

Returned == pc \in {"returning", "done"}

Recommended == Returned /\ result.reasoning = "recommended"

\* the start times a result hands to the caller
ReturnedTimes == {result.recommended_time} \cup SeqRange(result.alternative_times)

CallStart == IF call.preferred_date = NoDate THEN call.clock ELSE call.preferred_date

CallEnd == CallStart + SearchDays * MinutesPerDay

\* half-open overlap of [s, e) with a busy block
Overlaps(s, e, b) == b.start < e /\ s < b.end

SlotScores == { scored_slots[i].productivity_score : i \in DOMAIN scored_slots }

\* C1: every returned start time (recommended or alternative) opens an
\* interval [start, start + duration) that overlaps no busy interval, meeting
\* or deadline block, of any requested participant.
C1_ReturnedSlotsAvoidBusy ==
    Recommended =>
        \A t \in ReturnedTimes : \A u \in SeqRange(call.participants) :
            \A b \in BusySlots(u, CallStart, CallEnd) :
                ~Overlaps(t, t + call.duration_minutes, b)

\* C2: every slot the generator emitted has available_users equal to the
\* requested participant list; a step with only some participants free is
\* not emitted.
C2_FullAvailability ==
    pc # "idle" =>
        \A i \in DOMAIN scored_slots :
            scored_slots[i].available_users = call.participants

\* a step of the walk at which some but not all participants are free
PartialStep(d, k) ==
    LET t == At(d, WorkStartHour, 0) + (k - 1) * SlotStep
        free == CheckSlotAvailability(t, t + call.duration_minutes,
                                      call.participants, call.fault.checks)
    IN  0 < Len(free) /\ Len(free) < Len(call.participants)

C2_Witness ==
    /\ Recommended
    /\ \E d \in DateOf(CallStart)..DateOf(CallEnd) :
          /\ ~IsWeekend(d)
          /\ \E k \in 1..DaySteps(At(d, WorkStartHour, 0), At(d, WorkEndHour, 0),
                                  call.duration_minutes) : PartialStep(d, k)

\* C3: no candidate slot, hence no returned time, starts on a Saturday or a
\* Sunday, for every search start and every duration (stated for a request
\* that names a participant, whose candidates are scored and returned).
C3_NoWeekendStart ==
    (pc # "idle" /\ call.participants # <<>>) =>
        /\ \A i \in DOMAIN scored_slots :
              WeekdayOf(DateOf(scored_slots[i].start_time)) < 5
        /\ Recommended => \A t \in ReturnedTimes : WeekdayOf(DateOf(t)) < 5

C5_BestSlotRecommended ==
    (Returned /\ scored_slots # <<>> /\ call.duration_minutes > 0) =>
        \E best \in { SetMax(SlotScores) } :
            /\ result.confidence_score = best
            /\ \E i \in DOMAIN scored_slots :
                  /\ scored_slots[i].start_time = result.recommended_time
                  /\ scored_slots[i].productivity_score = best
            /\ \A i \in DOMAIN scored_slots :
                  scored_slots[i].productivity_score = best
                      => result.recommended_time <= scored_slots[i].start_time

\* what holds of C5: the same, for a request that names a participant
BestSlotRecommendedNonEmpty ==
    call.participants # <<>> => C5_BestSlotRecommended

\* rank order: score descending, ties by earlier start (a total preorder, so
\* a list is in rank order when each element ranks before its successor)
RanksBefore(a, b) ==
    \/ a.productivity_score > b.productivity_score
    \/ a.productivity_score = b.productivity_score /\ a.start_time <= b.start_time

\* C6: alternative_times holds at most 5 start times, distinct from each
\* other and from recommended_time; the k-th is the candidate ranked k+1 in
\* score-descending, earliest-first order; with fewer than 6 candidates it
\* holds all the remaining ones.
C6_AlternativesNextBest ==
    Recommended =>
        /\ Len(result.alternative_times) = Min(Len(scored_slots) - 1, MaxAlternatives)
        /\ \A k \in DOMAIN result.alternative_times :
              /\ result.alternative_times[k] = scored_slots[k + 1].start_time
              /\ result.alternative_times[k] # result.recommended_time
              /\ \A j \in DOMAIN result.alternative_times :
                    j # k => result.alternative_times[j] # result.alternative_times[k]
        /\ \A i \in 1..(Len(scored_slots) - 1) :
              RanksBefore(scored_slots[i], scored_slots[i + 1])

\* what holds of C3 and C6: the same, for a positive duration
NoWeekendStartPositive ==
    call.duration_minutes > 0 => C3_NoWeekendStart

AlternativesNextBestPositive ==
    call.duration_minutes > 0 => C6_AlternativesNextBest

\* what holds of C1: for a positive duration no returned slot overlaps a
\* calendar event of a participant
ReturnedSlotsAvoidMeetings ==
    (Recommended /\ call.duration_minutes > 0) =>
        \A t \in ReturnedTimes : \A u \in SeqRange(call.participants) :
            \A b \in BusySlots(u, CallStart, CallEnd) :
                b.type = "meeting" => ~Overlaps(t, t + call.duration_minutes, b)

C8_EmptyParticipantsRejected ==
    (pc # "idle" /\ call.participants = <<>> /\ call.duration_minutes > 0) =>
        /\ queries = 0
        /\ result = NoResult

\* C9: with duration_minutes <= 0 the call fails fast: no candidate slot is
\* generated (none with end <= start) and no slot is recommended (stated for
\* a request that names a participant).
C9_NonPositiveDurationRejected ==
    (pc # "idle" /\ call.duration_minutes <= 0 /\ call.participants # <<>>) =>
        /\ scored_slots = <<>>
        /\ result.reasoning # "recommended"

\* C10: with no candidate slot the call returns the no-slot result:
\* confidence 0, no alternatives, the no-slot reason and warning, and
\* recommended_time one day after the search window start.
C10_NoSlotResult ==
    (Returned /\ scored_slots = <<>>) =>
        /\ result.confidence_score = 0
        /\ result.alternative_times = <<>>
        /\ result.reasoning = "no_slot_found"
        /\ result.conflict_warnings = <<"no_free_slots">>
        /\ result.recommended_time = CallStart + MinutesPerDay

\* no candidate although both participants are free all day: the duration
\* does not fit the working day
C10_Witness ==
    /\ pc = "done"
    /\ scored_slots = <<>>
    /\ call.participants # <<>>
    /\ ~call.fault.checks
    /\ call.preferred_date # NoDate

\* the default working day of the date a slot starts on
OnGrid(slot) ==
    LET d == DateOf(slot.start_time)
    IN  /\ slot.start_time >= At(d, WorkStartHour, 0)
        /\ (slot.start_time - At(d, WorkStartHour, 0)) % SlotStep = 0
        /\ slot.end_time <= At(d, WorkEndHour, 0)

WorkingSpan == (WorkEndHour - WorkStartHour) * 60

\* C11: every candidate starts at 09:00 plus a whole number of 30-minute
\* steps and ends by 17:00 of the day it starts; a request longer than the
\* 480-minute working span has no candidate and gets the no-slot result with
\* confidence 0 (stated for a request that names a participant).
C11_WorkingHoursGrid ==
    (pc # "idle" /\ call.participants # <<>>) =>
        /\ \A i \in DOMAIN scored_slots : OnGrid(scored_slots[i])
        /\ (Returned /\ call.duration_minutes > WorkingSpan) =>
              /\ scored_slots = <<>>
              /\ result.confidence_score = 0
              /\ result.reasoning = "no_slot_found"

\* what holds of C11: the same, for a positive duration and any participants
WorkingHoursGridPositive ==
    (pc # "idle" /\ call.duration_minutes > 0) =>
        /\ \A i \in DOMAIN scored_slots : OnGrid(scored_slots[i])
        /\ (Returned /\ call.duration_minutes > WorkingSpan) =>
              /\ scored_slots = <<>>
              /\ result.confidence_score = 0
              /\ result.reasoning = "no_slot_found"

\* working hours of a participant on a date: the supplied constraint, else
\* the 09:00-17:00 default
WorkingHoursOn(u, d) ==
    IF u \in DOMAIN call.constraints
    THEN << d * MinutesPerDay + call.constraints[u].working_hours[1],
            d * MinutesPerDay + call.constraints[u].working_hours[2] >>
    ELSE << At(d, WorkStartHour, 0), At(d, WorkEndHour, 0) >>

InsideWorkingHours(slot, u) ==
    LET wh == WorkingHoursOn(u, DateOf(slot.start_time))
    IN  wh[1] <= slot.start_time /\ slot.end_time <= wh[2]

\* C12: every candidate lies inside the working hours of at least one
\* participant, the supplied ones or, for a participant without a constraint,
\* 09:00-17:00.
C12_InsideSuppliedWorkingHours ==
    pc # "idle" =>
        \A i \in DOMAIN scored_slots :
            \E u \in SeqRange(call.participants) :
                InsideWorkingHours(scored_slots[i], u)

\* what holds of C12: every candidate lies inside 09:00-17:00, whatever the
\* constraints say
InsideDefaultWorkingHours ==
    pc # "idle" => \A i \in DOMAIN scored_slots : OnGrid(scored_slots[i])

\* Scenario A: both users, 30 minutes, the default meeting type, no events
\* and no tasks, a window that starts on a Monday
ScenarioA ==
    /\ Returned
    /\ call.participants = <<1, 2>>
    /\ call.duration_minutes = 30
    /\ call.meeting_type = "team_meeting"
    /\ events = {}
    /\ tasks = {}
    /\ WeekdayOf(DateOf(CallStart)) = 0

MondayNine ==
    /\ result.recommended_time = At(DateOf(CallStart), WorkStartHour, 0)
    /\ result.confidence_score * 10 > 3 * Scale

C14_FailedFetchMeansBusy ==
    (/\ Returned
     /\ call.fault.analysis
     /\ Len(call.participants) >= 2) =>
        /\ scored_slots = <<>>
        /\ result.reasoning = "no_slot_found"

\* what holds of C14: a failure of the slot checks frees nobody, and no
\* database failure reaches the caller as anything but a result
FailedCheckMeansBusy ==
    (Returned /\ call.fault.checks /\ call.participants # <<>>) =>
        /\ scored_slots = <<>>
        /\ result.reasoning = "no_slot_found"

\* C15: when the fetch fails for every participant (a single participant
\* whose analysis fetch fails), the result has confidence 0 and carries a
\* warning.
C15_AllFailedZeroConfidence ==
    (/\ Returned
     /\ call.fault.analysis
     /\ Len(call.participants) = 1) =>
        /\ result.confidence_score = 0
        /\ result.conflict_warnings # <<>>

\* what holds of C15: the same when every query of the call fails, the slot
\* checks included
AllQueriesFailedZeroConfidence ==
    (/\ Returned
     /\ call.fault.analysis
     /\ call.fault.checks
     /\ call.participants # <<>>) =>
        /\ result.confidence_score = 0
        /\ result.conflict_warnings # <<>>

\* C16: every call eventually returns, also when the database never answers
\* a fetch: a call that waits for the database gets to its return.
C16_EveryCallReturns == (pc = "awaiting") ~> (pc = "done")

\* what holds of C16: once the database has answered, the call returns
AnsweredCallReturns == (pc \in {"caching", "returning"}) ~> (pc = "done")

\* no step of a waiting call is enabled but the database's answer
OnlyAnswerEndsWait ==
    [][pc = "awaiting" => pc' \in {"awaiting", "caching", "returning"}]_vars

\* C17: with the same calendar and the same request, the result returned
\* while every cache command raises is the result returned with no cache
\* configured: the failure neither raises nor changes the outcome.
C17_CacheFailureInvisible ==
    (pc = "done" /\ pinned # NoPin /\ redis_down) =>
        result = pinned.result

\* a slot recommended although Redis, holding a profile of a participant,
\* raised on the read and on the write
C17_Witness ==
    /\ pc = "done"
    /\ pinned # NoPin
    /\ redis_down
    /\ result.reasoning = "recommended"
    /\ \E u \in SeqRange(call.participants) : patterns[u] # NoProfile
    /\ cacheWrites = 1
    /\ DOMAIN resultCache = {}

AllRequestsDone == \A r \in Requests : requests[r].pc = "done"

\* the records the concurrent calls have sent to Redis
WrittenRecords ==
    { requests[r].written : r \in { q \in Requests : requests[q].written # NoResult } }

\* C18: calls whose participant lists are permutations of one another write
\* one key; whatever the interleaving, the value under it is always a whole
\* record one of them wrote, and once all have finished it is the record of
\* the call that wrote last.
C18_LastWriteWins ==
    /\ \A r \in Requests, q \in Requests :
          (requests[r].pc # "idle" /\ requests[q].pc # "idle")
              => CacheKey(requests[r].participants) = CacheKey(requests[q].participants)
    /\ Cardinality(DOMAIN resultCache) <= 1
    /\ \A k \in DOMAIN resultCache : resultCache[k] \in WrittenRecords
    /\ (AllRequestsDone /\ lastWriter # 0) =>
          /\ DOMAIN resultCache = { CacheKey(requests[lastWriter].participants) }
          /\ \A k \in DOMAIN resultCache : resultCache[k] = requests[lastWriter].written

\* both calls wrote, in either order of the team, different records at
\* different times
C18_Witness ==
    /\ AllRequestsDone
    /\ lastWriter = 1
    /\ requests[1].participants # requests[2].participants
    /\ requests[1].written # NoResult
    /\ requests[2].written # NoResult
    /\ requests[2].written.timestamp < requests[1].written.timestamp
    /\ requests[1].written.confidence_score # requests[2].written.confidence_score

\* the period lengths the documentation names
PeriodDays(time_period) ==
    CASE time_period = "week"    -> 7
      [] time_period = "month"   -> 30
      [] time_period = "quarter" -> 90

\* C19: for each member of a report, workload_score is
\* min((count/days)/5 + ((minutes/60)/days)/4, 1.0) with days 7, 30, 90, over
\* the member's events of the period; the tier is low below 0.3, optimal
\* below 0.6, high below 0.8, else overloaded; 5 meetings of 60 minutes over
\* a week score about 0.32 and are optimal.
C19_WorkloadScoreAndTier ==
    (~workload.error /\ workload.period \in {"week", "month", "quarter"}) =>
        \A u \in DOMAIN workload.team_workload :
            LET w == workload.team_workload[u]
                days == PeriodDays(workload.period)
                mine == { e \in events : /\ e.user_id = u
                                         /\ e.start_time >= now - days * MinutesPerDay
                                         /\ e.start_time <= now }
            IN  /\ w.meeting_count = Cardinality(mine)
                /\ w.total_meeting_time = TotalMeetingTime(mine)
                /\ w.workload_score * (240 * days) =
                       Min(48 * w.meeting_count + w.total_meeting_time, 240 * days)
                           * WorkloadScale
                /\ w.status = "low" <=> 10 * w.workload_score < 3 * WorkloadScale
                /\ w.status = "optimal" <=>
                       (/\ 10 * w.workload_score >= 3 * WorkloadScale
                        /\ 10 * w.workload_score < 6 * WorkloadScale)
                /\ w.status = "high" <=>
                       (/\ 10 * w.workload_score >= 6 * WorkloadScale
                        /\ 10 * w.workload_score < 8 * WorkloadScale)
                /\ w.status = "overloaded" <=> 10 * w.workload_score >= 8 * WorkloadScale
                /\ (/\ workload.period = "week"
                    /\ w.meeting_count = 5
                    /\ w.total_meeting_time = 300) =>
                       /\ 1000 * w.workload_score >= 315 * WorkloadScale
                       /\ 1000 * w.workload_score < 325 * WorkloadScale
                       /\ w.status = "optimal"

\* Scenario E next to a capped, overloaded member
C19_Witness ==
    /\ ~workload.error
    /\ workload.period = "week"
    /\ DOMAIN workload.team_workload = {1, 2}
    /\ workload.team_workload[1].meeting_count = 5
    /\ workload.team_workload[1].total_meeting_time = 300
    /\ workload.team_workload[1].status = "optimal"
    /\ workload.team_workload[2].workload_score = WorkloadScale
    /\ workload.team_workload[2].status = "overloaded"

\* C20: within one report (one period length), of two members with the same
\* total meeting minutes the one with no more meetings has no higher score,
\* the cap at 1.0 included.
C20_MonotoneInMeetingCount ==
    ~workload.error =>
        \A u \in DOMAIN workload.team_workload, v \in DOMAIN workload.team_workload :
            (/\ workload.team_workload[u].total_meeting_time
                    = workload.team_workload[v].total_meeting_time
             /\ workload.team_workload[u].meeting_count
                    <= workload.team_workload[v].meeting_count)
                => workload.team_workload[u].workload_score
                       <= workload.team_workload[v].workload_score

\* the same 1600 minutes in one meeting (below the cap) and in two (capped)
C20_Witness ==
    /\ ~workload.error
    /\ DOMAIN workload.team_workload = {1, 2}
    /\ workload.team_workload[1].total_meeting_time = 1600
    /\ workload.team_workload[2].total_meeting_time = 1600
    /\ workload.team_workload[1].meeting_count < workload.team_workload[2].meeting_count
    /\ workload.team_workload[1].workload_score < WorkloadScale
    /\ workload.team_workload[2].workload_score = WorkloadScale

-----------------------------------------------------------------------------
(* the recommendations of a workload report *)

WorkloadReported == workload # NoReport /\ ~workload.error

HasRecommendation(kind) ==
    \E i \in DOMAIN workload.recommendations : workload.recommendations[i].kind = kind

OverloadedTier ==
    { u \in DOMAIN workload.team_workload :
          workload.team_workload[u].status = "overloaded" }

\* C21: the recommendation flagging overloaded members is in the report
\* exactly when some user's status tier is overloaded, and it reports as many
\* members as there are users of that tier
C21_OverloadedFlagged ==
    WorkloadReported =>
        /\ HasRecommendation("overloaded") <=> OverloadedTier # {}
        /\ \A i \in DOMAIN workload.recommendations :
               workload.recommendations[i].kind = "overloaded" =>
                   workload.recommendations[i].members = Cardinality(OverloadedTier)

AboveOverloadThreshold ==
    { u \in DOMAIN workload.team_workload :
          10 * workload.team_workload[u].workload_score > 8 * WorkloadScale }

\* the members the recommendation counts are those whose score is strictly
\* above 0.8
OverloadedFlaggedAboveThreshold ==
    WorkloadReported =>
        /\ HasRecommendation("overloaded") <=> AboveOverloadThreshold # {}
        /\ \A i \in DOMAIN workload.recommendations :
               workload.recommendations[i].kind = "overloaded" =>
                   workload.recommendations[i].members = Cardinality(AboveOverloadThreshold)

\* C22: for the periods week (7), month (30) and quarter (90) the
\* too-many-meetings recommendation is in the report exactly when some user's
\* meeting_count divided by the days of the period is strictly greater than 4
C22_TooManyMeetingsFlagged ==
    (WorkloadReported /\ workload.period \in {"week", "month", "quarter"}) =>
        (HasRecommendation("too_many_meetings") <=>
            \E u \in DOMAIN workload.team_workload :
                workload.team_workload[u].meeting_count > 4 * PeriodDays(workload.period))

\* the recommendation follows the average rounded to one decimal: it is
\* present exactly when 10 * meeting_count / days is at least 40.5
TooManyMeetingsOnRoundedAverage ==
    (WorkloadReported /\ workload.period \in {"week", "month", "quarter"}) =>
        (HasRecommendation("too_many_meetings") <=>
            \E u \in DOMAIN workload.team_workload :
                20 * workload.team_workload[u].meeting_count
                    >= 81 * PeriodDays(workload.period))

RecommendationKinds == { "overloaded", "underloaded", "too_many_meetings", "focus_time" }

\* a report with its period, a member table, a summary tier and a list of
\* known recommendations
StructurallyValid(report) ==
    /\ ~report.error
    /\ report.period \in PeriodChoices
    /\ report.summary \in {"low", "optimal", "overloaded"}
    /\ \A i \in DOMAIN report.recommendations :
           report.recommendations[i].kind \in RecommendationKinds

EndsWithFocusTime(report) ==
    /\ report.recommendations # <<>>
    /\ report.recommendations[Len(report.recommendations)].kind = "focus_time"

\* C23: every report of analyze_team_workload, for every team-member list,
\* the empty one included, and every period, is structurally valid and its
\* recommendation list ends with the protect-focus-time recommendation
C23_ReportValidWithFocusTime ==
    workload # NoReport => StructurallyValid(workload) /\ EndsWithFocusTime(workload)

\* a report computed from the members' calendars is valid and ends with the
\* focus-time recommendation
ComputedReportValid ==
    WorkloadReported => StructurallyValid(workload) /\ EndsWithFocusTime(workload)

-----------------------------------------------------------------------------
(* _check_slot_availability *)

SlotChecked == slot_check # NoCheck /\ ~slot_check.fails

ReportedFree(u) == u \in SeqRange(slot_check.available_users)

\* the busy block of an Event row
BlockOf(e) == [start |-> e.start_time, end |-> e.start_time + e.duration]

\* C24: a participant is reported free for [s, e) exactly when none of their
\* busy blocks b has b.start < e and s < b.end, zero-length blocks included:
\* a block ending at s or starting at e never makes them unavailable
C24_HalfOpenOverlap ==
    SlotChecked =>
        \A u \in SeqRange(slot_check.participants) :
            ReportedFree(u) <=>
                \A b \in events :
                    b.user_id = u =>
                        ~Overlaps(slot_check.start_time, slot_check.end_time, BlockOf(b))

\* a zero-length block at either end of the slot
AtSlotEdge(b) ==
    /\ b.duration = 0
    /\ b.start_time \in {slot_check.start_time, slot_check.end_time}

\* the rule holds for every block but a zero-length one at s or at e, which
\* makes the participant unavailable
HalfOpenOverlapButEdges ==
    SlotChecked =>
        \A u \in SeqRange(slot_check.participants) :
            ReportedFree(u) <=>
                \A b \in events :
                    b.user_id = u =>
                        /\ ~Overlaps(slot_check.start_time, slot_check.end_time, BlockOf(b))
                        /\ ~AtSlotEdge(b)

-----------------------------------------------------------------------------
(* the productivity contribution of _score_time_slots *)

\* availability_data of the call in progress
CallAvailability ==
    AnalyzeTeamAvailability(call.participants, CallStart, CallEnd, call.fault.analysis)

\* 0.1 times the mean of the participants' weights for the bucket of hour
MeanProductivity(hour) ==
    ProductivitySum(call.participants, 1, hour, CallAvailability)
        \div Len(call.participants)

\* the score of a slot whose productivity contribution is the mean
ScoreWithMean(slot) ==
    ClampScore((3 * Scale) \div 10
               + TypeBonus(call.meeting_type, HourOf(slot.start_time))
               + MeanProductivity(HourOf(slot.start_time))
               + WorkloadBonus(call.participants, CallAvailability)
               + WeekdayBonus(WeekdayOf(DateOf(slot.start_time))))

Scored == pc # "idle" /\ call.participants # <<>> /\ ~call.fault.analysis

\* C25: the productivity contribution in a slot's score is 0.1 times the
\* mean, over the participants, of their weight for the bucket of the slot's
\* start hour (so at most 0.1 times the largest weight): every score is the
\* base, type, workload and weekday terms plus that mean, capped at 1
C25_ProductivityIsMean ==
    Scored =>
        \A i \in DOMAIN scored_slots :
            scored_slots[i].productivity_score = ScoreWithMean(scored_slots[i])

\* the same for a call with one participant, where sum and mean coincide
ProductivityIsMeanOfOne ==
    (Scored /\ Len(call.participants) = 1) =>
        \A i \in DOMAIN scored_slots :
            scored_slots[i].productivity_score = ScoreWithMean(scored_slots[i])

-----------------------------------------------------------------------------
(* the warnings of _check_scheduling_conflicts *)

LunchWarned == "lunch" \in SeqRange(result.conflict_warnings)

\* C26: the lunch-overlap warning is attached exactly when the winning slot
\* starts at an hour h with 12 <= h < 13; a winner at 13:00 or 13:30 carries
\* none
C26_LunchWarningFromTwelveToOne ==
    Recommended => (LunchWarned <=> HourOf(result.recommended_time) = 12)

\* the warning is attached exactly when the start hour is 12 or 13
LunchWarningFromTwelveToTwo ==
    Recommended => (LunchWarned <=> HourOf(result.recommended_time) \in {12, 13})

-----------------------------------------------------------------------------
(* the search window *)

\* C27: every candidate starts no earlier than the search start
\* (preferred_date, or the current time without one) and ends no later than
\* 14 days after it; a recommended time is never earlier than the
\* preferred_date of the call (stated for a request that names a participant
\* and has a positive duration)
C27_InsideSearchWindow ==
    (pc # "idle" /\ call.participants # <<>> /\ call.duration_minutes > 0) =>
        /\ \A i \in DOMAIN scored_slots :
               /\ scored_slots[i].start_time >= CallStart
               /\ scored_slots[i].end_time <= CallEnd
        /\ (Recommended /\ call.preferred_date # NoDate) =>
               result.recommended_time >= call.preferred_date

\* every candidate lies in the working hours of a date from the date of the
\* search start to the date of the search end
InsideSearchDates ==
    (pc # "idle" /\ call.duration_minutes > 0) =>
        \A i \in DOMAIN scored_slots :
            /\ scored_slots[i].start_time >= At(DateOf(CallStart), WorkStartHour, 0)
            /\ scored_slots[i].end_time <= At(DateOf(CallEnd), WorkEndHour, 0)

-----------------------------------------------------------------------------
(* the result cache within one request *)

\* C28: within one request the result cache is written at most once, only
\* once the winning slot, the alternatives and the warnings are computed and
\* only for a result with a selected slot; the no-slot and the error result
\* are never written; the result returned is the one computed from the
\* candidates of this request, whatever the cache holds
C28_CacheWrittenOnceAfterResult ==
    /\ cacheWrites <= 1
    /\ pc = "caching" =>
           /\ cacheWrites = 0
           /\ scored_slots # <<>>
           /\ result = SlotResult(scored_slots)
    /\ cacheWrites = 1 =>
           /\ pc \in {"returning", "done"}
           /\ result.reasoning = "recommended"
           /\ CacheKey(call.participants) \in DOMAIN resultCache
           /\ resultCache[CacheKey(call.participants)] = CacheData(result, call.clock)
    /\ result.reasoning \in {"no_slot_found", "error"} => cacheWrites = 0
    /\ \A k \in DOMAIN resultCache : resultCache[k].reasoning = "recommended"
    /\ Recommended =>
           /\ scored_slots # <<>>
           /\ result = SlotResult(scored_slots)

\* the request repeated at a later time: the cache held the record of the
\* first call, the second call returned another slot and wrote once
C28_Witness ==
    /\ pc = "done"
    /\ pinned # NoPin
    /\ pinned.result.reasoning = "recommended"
    /\ result.reasoning = "recommended"
    /\ result.recommended_time # pinned.result.recommended_time
    /\ cacheWrites = 1
    /\ resultCache[CacheKey(call.participants)].recommended_time = result.recommended_time

-----------------------------------------------------------------------------
(* the rooms of the WebSocket manager *)

\* C29: after any sequence of connect, disconnect, join_room and leave_room
\* calls the two room indexes agree (u is in room_members[r] exactly when r
\* is in user_rooms[u]) and every room in room_members has a member
C29_RoomIndexesAgree ==
    /\ \A u \in WsUsers, r \in RoomChoices :
           (r \in DOMAIN room_members /\ u \in room_members[r])
               <=> (u \in DOMAIN user_rooms /\ r \in user_rooms[u])
    /\ \A r \in DOMAIN room_members : room_members[r] # {}

\* a connected user has left the team room and keeps the default room; the
\* team room lives on with the other user, who joined it after a disconnect
\* had taken them out of every room
C29_Witness ==
    /\ handled.op = "leave_room"
    /\ \E u \in WsUsers, v \in WsUsers :
           /\ u # v
           /\ handled.user_id = u
           /\ <<"team", 0>> \in DOMAIN room_members
           /\ room_members[<<"team", 0>>] = {v}
           /\ u \in DOMAIN user_rooms
           /\ user_rooms[u] = {UserRoom(u)}
           /\ u \in DOMAIN active_connections
           /\ v \in DOMAIN user_status
           /\ user_status[v] = "offline"
           /\ user_rooms[v] = {<<"team", 0>>}

OfflineNotices ==
    { m \in handled.delivered : m.type = "user_status" /\ m.status = "offline" }

\* C30: when the last active connection of a user is disconnected, a
\* user_status message with status offline goes to every other connected
\* member of each room the user belonged to at that moment; while the user
\* has another active connection no offline message is sent
C30_OfflineBroadcast ==
    handled.op = "disconnect" =>
        /\ handled.last_connection =>
               \A v \in handled.audience :
                   \E m \in OfflineNotices : m.to = v /\ m.user_id = handled.user_id
        /\ ~handled.last_connection => OfflineNotices = {}

\* a disconnect delivers no message at all: the user has left every room
\* when the offline status is broadcast
DisconnectDeliversNothing ==
    handled.op = "disconnect" => handled.delivered = {} /\ ~handled.raised

\* the online status of a connect reaches the members of the user's rooms
OnlineBroadcast ==
    (handled.op = "connect" /\ ~handled.raised) =>
        \A v \in handled.audience :
            \E m \in handled.delivered :
                /\ m.type = "user_status"
                /\ m.status = "online"
                /\ m.to = v
                /\ m.user_id = handled.user_id

====
